---- MODULE Spec2Model ----
(***************************************************************************)
(* Library-map resolution and change reconciliation of the KLayout library *)
(* manager plugin (src/pymacros).                                          *)
(*                                                                         *)
(*   Spec         LibraryMapChanges.compare, lines 57-90 (the diff of two  *)
(*                resolved definition lists), followed by the registry     *)
(*                updates of apply_library_map_changes, lines 634-668.     *)
(*   SpecCompare  the call LibraryMapChanges.compare as the plugin makes   *)
(*                it (on_manage_cell_library_map), with Python's argument  *)
(*                binding of the two resolution calls at lines 54-55.      *)
(*   SpecResolve  LibraryMapConfig.effective_library_definitions over a    *)
(*                small file system, one statement per step, with the      *)
(*                recursion into includes kept on an explicit call stack.  *)
(***************************************************************************)
EXTENDS Integers, Sequences, FiniteSets, TLC

VARIABLES
    pc,                    \* position of the modelled control flow
    old_lib_defs,          \* compare: resolved definitions of old_config
    new_lib_defs,          \* compare: resolved definitions of new_config
    handled_new_lib_defs,  \* compare: Set[LibraryDefinition]
    added_libs,            \* compare / LibraryMapChanges.added_libs
    removed_libs,          \* compare / LibraryMapChanges.removed_libs
    renamed_libs,          \* compare / LibraryMapChanges.renamed_libs
    repathed_libs,         \* compare / LibraryMapChanges.repathed_libs
    registry,              \* pya.Library registry: library name -> path read
    has_0_30_5_api,        \* whether pya.Library has rename / unregister
    fs,                    \* the file system: absolute path -> file state
    cwd,                   \* the process's working directory
    config,                \* resolution: statements of the LibraryMapConfig
    base_folder,           \* resolution: base_folder of the outermost call
    stack,                 \* resolution: frames of effective_library_definitions
    issues,                \* resolution: the LibraryMapIssues accumulator
    result,                \* resolution: the list the outermost call returned
    exception,             \* the exception that ended the call, "" if none
    old_config,            \* on_manage_cell_library_map: old_map_cfg
    new_config,            \* on_manage_cell_library_map: new_map_cfg
    path_call,             \* resolve_path: its arguments and what it returned
    first_call,            \* what an earlier call of the resolution produced
    message,               \* the text LibraryMapIssues.rich_text returned
    json_call,             \* json_string / from_json_string: input and outputs
    validate_call,         \* validate_path: its arguments and how it ended
    reload,                \* reload_cell_libraries / apply: dialogs and loads
    dialog,                \* LibraryManagerDialog: rows, statuses, result
    copy_call              \* load_as_copy: its arguments and what it produced

diffVars == <<old_lib_defs, new_lib_defs, handled_new_lib_defs, added_libs,
              removed_libs, renamed_libs, repathed_libs, registry,
              has_0_30_5_api>>

resVars == <<fs, cwd, config, base_folder, stack, issues, result, exception>>

cmpVars == <<old_config, new_config>>

uiVars == <<validate_call, reload, dialog, copy_call>>

auxVars == <<path_call, first_call, message, json_call, uiVars>>

vars == <<pc, diffVars, resVars, cmpVars, auxVars>>

-----------------------------------------------------------------------------
(* Bounds of the model *)

MaxOldDefs == 2
MaxNewDefs == 2

(* Library names and resolved paths the definition lists are drawn over *)
LibNames == {"A", "B", "C"}
DiffPaths == {<<"/w", "p.gds">>, <<"/w", "q.gds">>}

(* Python None: for a definition, and for a library not in the registry *)
None == [lib_name |-> "", lib_path |-> <<>>]
NoLib == <<>>

LibraryDefinition(n, p) == [lib_name |-> n, lib_path |-> p]

DiffDefs == {LibraryDefinition(n, p) : n \in LibNames, p \in DiffPaths}

SeqsUpTo(S, n) == UNION {[1..k -> S] : k \in 0..n}

Range(s) == {s[i] : i \in 1..Len(s)}

-----------------------------------------------------------------------------
(* Python dict comprehension {key(ld): ld for ld in defs}: a key keeps the  *)
(* position of its first insertion and the value of its last one.           *)

RECURSIVE DictKeys(_, _)
DictKeys(defs, field) ==
    IF defs = <<>> THEN <<>>
    ELSE LET front == SubSeq(defs, 1, Len(defs) - 1)
             k == defs[Len(defs)][field]
             ks == DictKeys(front, field)
         IN  IF k \in Range(ks) THEN ks ELSE Append(ks, k)

LastIndexWith(defs, field, k) ==
    CHOOSE i \in 1..Len(defs) :
        /\ defs[i][field] = k
        /\ \A j \in (i + 1)..Len(defs) : defs[j][field] # k

DictValues(defs, field) ==
    [k \in {defs[i][field] : i \in 1..Len(defs)} |->
        defs[LastIndexWith(defs, field, k)]]

DictGet(d, k) == IF k \in DOMAIN d THEN d[k] ELSE None

old_lib_defs_by_path_items ==
    LET ks == DictKeys(old_lib_defs, "lib_path")
        vs == DictValues(old_lib_defs, "lib_path")
    IN  [i \in 1..Len(ks) |-> <<ks[i], vs[ks[i]]>>]

new_lib_defs_by_path == DictValues(new_lib_defs, "lib_path")
new_lib_defs_by_name == DictValues(new_lib_defs, "lib_name")

-----------------------------------------------------------------------------
(* compare, lines 61-80: the loop over old_lib_defs_by_path.items()         *)

EmptyChanges == [added |-> <<>>, removed |-> <<>>, renamed |-> <<>>,
                 repathed |-> <<>>, handled |-> {}]

(* the loop body with the match by name tried before the match by path *)
OldLoopBodyNameFirst(acc, path, old_def) ==
    LET new_def_for_name == DictGet(new_lib_defs_by_name, old_def.lib_name)
        new_def == DictGet(new_lib_defs_by_path, path)
    IN  IF new_def_for_name # None /\ new_def_for_name # old_def
        THEN [acc EXCEPT
                !.repathed = Append(@, <<old_def, new_def_for_name>>),
                !.handled = @ \cup {new_def_for_name}]
        ELSE IF new_def = None
        THEN [acc EXCEPT !.removed = Append(@, old_def)]
        ELSE IF old_def # new_def
             THEN [acc EXCEPT !.renamed = Append(@, <<old_def, new_def>>),
                              !.handled = @ \cup {new_def}]
             ELSE [acc EXCEPT !.handled = @ \cup {new_def}]

OldLoopBody(acc, path, old_def) ==
    LET new_def == DictGet(new_lib_defs_by_path, path)
    IN  IF new_def = None
        THEN LET new_def_for_name ==
                     DictGet(new_lib_defs_by_name, old_def.lib_name)
             IN  IF new_def_for_name # None
                 THEN [acc EXCEPT
                         !.repathed = Append(@, <<old_def, new_def_for_name>>),
                         !.handled = @ \cup {new_def_for_name}]
                 ELSE [acc EXCEPT !.removed = Append(@, old_def)]
        ELSE IF old_def # new_def
             THEN [acc EXCEPT !.renamed = Append(@, <<old_def, new_def>>),
                              !.handled = @ \cup {new_def}]
             ELSE [acc EXCEPT !.handled = @ \cup {new_def}]

RECURSIVE OldLoop(_, _)
OldLoop(items, acc) ==
    IF items = <<>> THEN acc
    ELSE OldLoop(Tail(items), OldLoopBody(acc, Head(items)[1], Head(items)[2]))

(* compare, lines 82-85: the loop over new_lib_defs *)
NewLoopBody(acc, new_def) ==
    IF new_def \notin acc.handled
    THEN [acc EXCEPT !.handled = @ \cup {new_def},
                     !.added = Append(@, new_def)]
    ELSE acc

RECURSIVE NewLoop(_, _)
NewLoop(defs, acc) ==
    IF defs = <<>> THEN acc
    ELSE NewLoop(Tail(defs), NewLoopBody(acc, Head(defs)))

-----------------------------------------------------------------------------
(* The registry of loaded libraries (pya.Library), as the plugin uses it    *)

NoRegistry == [n \in LibNames |-> NoLib]

(* pya.Library.library_by_name *)
library_by_name(reg, n) == reg[n]

(* lib = pya.Library(); lib.layout().read(path); lib.register(name), and    *)
(* for a registered library lib.layout().clear(); read(path); refresh():    *)
(* either way the name then holds what was read from path.                  *)
ReadInto(reg, def) == [reg EXCEPT ![def.lib_name] = def.lib_path]

(* reload_cell_libraries, lines 712-729: every definition read in order *)
RECURSIVE LoadAll(_, _)
LoadAll(defs, reg) ==
    IF defs = <<>> THEN reg
    ELSE LoadAll(Tail(defs), ReadInto(reg, Head(defs)))

(* apply_library_map_changes, lines 636-642 *)
RECURSIVE ApplyAddedLoop(_, _)
ApplyAddedLoop(defs, reg) ==
    IF defs = <<>> THEN reg
    ELSE ApplyAddedLoop(Tail(defs), ReadInto(reg, Head(defs)))

(* apply_library_map_changes, lines 647-650 *)
RenameOne(reg, pair) ==
    LET lib == library_by_name(reg, pair[1].lib_name)
    IN  IF lib # NoLib /\ has_0_30_5_api
        THEN [[reg EXCEPT ![pair[1].lib_name] = NoLib]
                   EXCEPT ![pair[2].lib_name] = lib]
        ELSE reg

RECURSIVE ApplyRenamedLoop(_, _)
ApplyRenamedLoop(pairs, reg) ==
    IF pairs = <<>> THEN reg
    ELSE ApplyRenamedLoop(Tail(pairs), RenameOne(reg, Head(pairs)))

(* apply_library_map_changes, lines 652-662 *)
RECURSIVE ApplyRepathedLoop(_, _)
ApplyRepathedLoop(pairs, reg) ==
    IF pairs = <<>> THEN reg
    ELSE ApplyRepathedLoop(Tail(pairs), ReadInto(reg, Head(pairs)[2]))

(* apply_library_map_changes, lines 664-668 *)
UnregisterOne(reg, old_def) ==
    IF library_by_name(reg, old_def.lib_name) # NoLib /\ has_0_30_5_api
    THEN [reg EXCEPT ![old_def.lib_name] = NoLib]
    ELSE reg

RECURSIVE ApplyRemovedLoop(_, _)
ApplyRemovedLoop(defs, reg) ==
    IF defs = <<>> THEN reg
    ELSE ApplyRemovedLoop(Tail(defs), UnregisterOne(reg, Head(defs)))

-----------------------------------------------------------------------------
(* Paths (pathlib.Path) are sequences of components; an absolute path       *)
(* starts with "/".                                                         *)

W == <<"/", "w">>
INC == <<"/", "inc">>
HOME == <<"/", "home">>

is_absolute(p) == p # <<>> /\ p[1] = "/"
parent(p) == IF Len(p) > 1 THEN SubSeq(p, 1, Len(p) - 1) ELSE p

(* Path.resolve() where no component is a symbolic link: "." is dropped and *)
(* ".." steps to the parent.                                                *)
RECURSIVE PathResolve(_, _)
PathResolve(done, todo) ==
    IF todo = <<>> THEN done
    ELSE LET c == Head(todo)
         IN  CASE c = "."  -> PathResolve(done, Tail(todo))
               [] c = ".." -> PathResolve(parent(done), Tail(todo))
               [] OTHER    -> PathResolve(Append(done, c), Tail(todo))

(* klayout_plugin_utils.path_helpers.expand_path: the user's home *)
expand_path(p) == IF p # <<>> /\ p[1] = "~" THEN HOME \o Tail(p) ELSE p

(* resolve_path that joins every path under the base folder *)
resolve_path_joins_always(path, base) ==
    LET joined == base \o expand_path(path)
    IN  PathResolve(<<>>, IF is_absolute(joined) THEN joined ELSE cwd \o joined)

(* LibraryMapConfig.resolve_path; Path.resolve() starts a path that is      *)
(* still relative at the working directory                                  *)
resolve_path(path, base) ==
    LET expanded == expand_path(path)
        joined == IF is_absolute(expanded) THEN expanded ELSE base \o expanded
    IN  PathResolve(<<>>, IF is_absolute(joined) THEN joined ELSE cwd \o joined)

-----------------------------------------------------------------------------
(* Statements of a configuration *)

LibraryMapComment(c) == [kind |-> "comment", comment |-> c]
LibraryDefinitionStatement(n, p) ==
    [kind |-> "library", lib_name |-> n, lib_path |-> p]
LibraryMapInclude(p) == [kind |-> "include", include_path |-> p]

-----------------------------------------------------------------------------
(* The file system *)

Missing == [kind |-> "missing", readable |-> FALSE, parses |-> FALSE,
            statements |-> <<>>]
Directory == [kind |-> "dir", readable |-> FALSE, parses |-> FALSE,
              statements |-> <<>>]
Blob == [kind |-> "file", readable |-> TRUE, parses |-> FALSE,
         statements |-> <<>>]
Unreadable == [kind |-> "file", readable |-> FALSE, parses |-> FALSE,
               statements |-> <<>>]
Denied == [kind |-> "denied", readable |-> FALSE, parses |-> FALSE,
           statements |-> <<>>]
ConfigFile(stmts) == [kind |-> "file", readable |-> TRUE, parses |-> TRUE,
                      statements |-> stmts]

(* Contents of the map files that can be included *)
WX == <<LibraryDefinitionStatement("C", <<"a.gds">>)>>
IncXNested == <<LibraryDefinitionStatement("B", <<"a.gds">>),
                LibraryMapInclude(<<"y.klib">>),
                LibraryMapComment("c")>>
IncXSelf == <<LibraryDefinitionStatement("C", <<"a.gds">>),
              LibraryMapInclude(<<"x.klib">>)>>
IncY == <<LibraryDefinitionStatement("C", <<"..", "w", "a.gds">>)>>

FileSystems ==
    {[f \in {W \o <<"a.gds">>, INC \o <<"a.gds">>, W \o <<"x.klib">>,
             INC \o <<"x.klib">>, INC \o <<"y.klib">>} |->
        CASE f = W \o <<"a.gds">>    -> wa
          [] f = INC \o <<"a.gds">>  -> ia
          [] f = W \o <<"x.klib">>   -> wx
          [] f = INC \o <<"x.klib">> -> ix
          [] OTHER                   -> ConfigFile(IncY)] :
        wa \in {Missing, Blob},
        ia \in {Blob, Unreadable, Directory},
        wx \in {Missing, Blob, ConfigFile(WX)},
        ix \in {Missing, Blob, ConfigFile(IncXNested), ConfigFile(IncXSelf)}}

Stat(p) ==
    IF p \in DOMAIN fs THEN fs[p]
    ELSE IF p \in {<<"/">>, W, INC, HOME} THEN Directory ELSE Missing

(* Path.exists / Path.is_file of a path as given: a relative one is looked  *)
(* up from the working directory.                                           *)
FromCwd(p) == PathResolve(<<>>, IF is_absolute(p) THEN p ELSE cwd \o p)
exists(p) == Stat(FromCwd(p)).kind \notin {"missing", "denied"}
is_file(p) == Stat(FromCwd(p)).kind = "file"

(* stat() fails with EACCES: a directory on the way may not be searched.    *)
(* Path.exists and Path.is_file pass the error on up to Python 3.13 and     *)
(* answer False from Python 3.14 on.                                        *)
StatDenied(p) == Stat(FromCwd(p)).kind = "denied"

NoIssue == ""

(* read_bytes: int = 4 *)
DefaultReadBytes == 4

(* LibraryMapConfig.validate_path, where stat() does not raise *)
validate_path(path, read_bytes) ==
    IF ~exists(path) THEN "File does not exist"
    ELSE IF ~is_file(path) THEN "Not a regular file"
    ELSE IF read_bytes > 0 /\ ~Stat(FromCwd(path)).readable THEN "Unreadable"
    ELSE NoIssue

(* LibraryMapConfig.read_json: the statements, when json.load and           *)
(* dataclass_from_dict accept the file's content                            *)
CanReadJson(path) == Stat(FromCwd(path)).readable /\ Stat(FromCwd(path)).parses
read_json(path) == Stat(FromCwd(path)).statements

-----------------------------------------------------------------------------
(* effective_library_definitions, one statement of the innermost call per   *)
(* step                                                                     *)

MaxStatements == 2
RecursionLimit == 3

TopStatements ==
    {LibraryMapComment("c")}
    \cup {LibraryDefinitionStatement(n, p) :
            n \in {"A", "B"}, p \in {<<"a.gds">>, <<"/", "inc", "a.gds">>}}
    \cup {LibraryMapInclude(p) :
            p \in {<<"x.klib">>, <<"/", "inc", "x.klib">>,
                   <<"..", "inc", "x.klib">>}}

NoIssues == [failed_libraries |-> <<>>, failed_includes |-> <<>>]

Frame(stmts, base) ==
    [statements |-> stmts, base_folder |-> base, i |-> 1, libs |-> <<>>]

ResolutionIdle ==
    /\ fs = [f \in {} |-> Missing]
    /\ cwd = W
    /\ config = <<>>
    /\ base_folder = W
    /\ stack = <<>>
    /\ issues = NoIssues
    /\ result = <<>>
    /\ exception = ""

CompareIdle ==
    /\ old_config = <<>>
    /\ new_config = <<>>

NoPathCall == [path |-> <<>>, base_folder |-> <<>>, returned |-> <<>>]
NoFirstCall == [calls |-> 0, pc |-> "", result |-> <<>>, issues |-> NoIssues,
                exception |-> ""]
NoMessage == <<>>
NoConfig == [technology |-> "", statements |-> <<>>]
NoJsonCall == [config |-> NoConfig, json |-> NoConfig, obtained |-> NoConfig]

NoValidateCall == [path |-> <<>>, read_bytes |-> 0, returned |-> "",
                   raised |-> ""]
NoReload == [loading_issues |-> NoIssues, consequences |-> <<>>,
             reads |-> <<>>, deferred |-> <<>>]
NoDialog == [layout_path |-> <<>>, lib_path |-> <<>>, config |-> NoConfig,
             library_rows |-> <<>>, include_rows |-> <<>>, edited |-> FALSE,
             valid |-> FALSE, outcome |-> "", written |-> FALSE,
             file |-> NoConfig, shown |-> NoConfig, result |-> 0]
NoCopyCall == [original_path |-> <<>>, new_path |-> <<>>, readable |-> FALSE,
               file |-> NoConfig, returned |-> NoConfig, written |-> NoConfig,
               raised |-> ""]

UiIdle ==
    /\ validate_call = NoValidateCall
    /\ reload = NoReload
    /\ dialog = NoDialog
    /\ copy_call = NoCopyCall

AuxIdle ==
    /\ path_call = NoPathCall
    /\ first_call = NoFirstCall
    /\ message = NoMessage
    /\ json_call = NoJsonCall
    /\ UiIdle

DiffIdle ==
    /\ old_lib_defs = <<>>
    /\ new_lib_defs = <<>>
    /\ handled_new_lib_defs = {}
    /\ added_libs = <<>>
    /\ removed_libs = <<>>
    /\ renamed_libs = <<>>
    /\ repathed_libs = <<>>
    /\ registry = NoRegistry
    /\ has_0_30_5_api = TRUE

InitResolve ==
    /\ pc = "resolving"
    /\ fs \in FileSystems
    /\ cwd \in {W, INC}
    /\ config \in SeqsUpTo(TopStatements, MaxStatements)
    /\ base_folder = W
    /\ stack = <<Frame(config, base_folder)>>
    /\ issues = NoIssues
    /\ result = <<>>
    /\ exception = ""
    /\ DiffIdle
    /\ CompareIdle
    /\ AuxIdle

Top == stack[Len(stack)]
AtStatement == pc = "resolving" /\ Top.i <= Len(Top.statements)
s == Top.statements[Top.i]

Advance(frames) == [frames EXCEPT ![Len(frames)].i = @ + 1]

ResolveFrame == UNCHANGED <<fs, cwd, config, base_folder, diffVars, cmpVars, auxVars>>

(* lines 177-178 *)
StepComment ==
    /\ AtStatement
    /\ s.kind = "comment"
    /\ stack' = Advance(stack)
    /\ UNCHANGED <<pc, issues, result, exception>>
    /\ ResolveFrame

(* lines 179-184 with the definition kept only when its path is valid *)
StepLibraryDefinitionDropsBad ==
    /\ AtStatement
    /\ s.kind = "library"
    /\ LET lib_path == resolve_path(s.lib_path, Top.base_folder)
           issue == validate_path(lib_path, DefaultReadBytes)
       IN  /\ stack' = IF issue # NoIssue THEN Advance(stack)
                       ELSE Advance([stack EXCEPT ![Len(stack)].libs =
                           Append(@, LibraryDefinition(s.lib_name, lib_path))])
           /\ issues' = IF issue # NoIssue
                        THEN [issues EXCEPT !.failed_libraries =
                                                Append(@, <<s, issue>>)]
                        ELSE issues
    /\ UNCHANGED <<pc, result, exception>>
    /\ ResolveFrame

(* lines 179-184 with the issue put in front of the earlier ones *)
StepLibraryDefinitionPrepends ==
    /\ AtStatement
    /\ s.kind = "library"
    /\ LET lib_path == resolve_path(s.lib_path, Top.base_folder)
           issue == validate_path(lib_path, DefaultReadBytes)
       IN  /\ stack' = Advance([stack EXCEPT ![Len(stack)].libs =
                           Append(@, LibraryDefinition(s.lib_name, lib_path))])
           /\ issues' = IF issue # NoIssue
                        THEN [issues EXCEPT !.failed_libraries =
                                                <<<<s, issue>>>> \o @]
                        ELSE issues
    /\ UNCHANGED <<pc, result, exception>>
    /\ ResolveFrame

(* lines 179-184 *)
StepLibraryDefinition ==
    /\ AtStatement
    /\ s.kind = "library"
    /\ LET lib_path == resolve_path(s.lib_path, Top.base_folder)
           issue == validate_path(lib_path, DefaultReadBytes)
       IN  /\ stack' = Advance([stack EXCEPT ![Len(stack)].libs =
                           Append(@, LibraryDefinition(s.lib_name, lib_path))])
           /\ issues' = IF issue # NoIssue
                        THEN [issues EXCEPT !.failed_libraries =
                                                Append(@, <<s, issue>>)]
                        ELSE issues
    /\ UNCHANGED <<pc, result, exception>>
    /\ ResolveFrame

(* lines 186-188 *)
StepIncludeNotAFile ==
    /\ AtStatement
    /\ s.kind = "include"
    /\ ~is_file(s.include_path)
    /\ stack' = Advance(stack)
    /\ UNCHANGED <<pc, issues, result, exception>>
    /\ ResolveFrame

(* lines 189-192 *)
StepIncludeFailed ==
    /\ AtStatement
    /\ s.kind = "include"
    /\ is_file(s.include_path)
    /\ LET path == resolve_path(s.include_path, Top.base_folder)
           issue == validate_path(path, DefaultReadBytes)
       IN  /\ issue # NoIssue
           /\ issues' = [issues EXCEPT !.failed_includes =
                                           Append(@, <<s, issue>>)]
    /\ stack' = Advance(stack)
    /\ UNCHANGED <<pc, result, exception>>
    /\ ResolveFrame

(* lines 193-195 with the caller's base_folder passed on unchanged *)
StepIncludeRecurseKeepsBase ==
    /\ AtStatement
    /\ s.kind = "include"
    /\ is_file(s.include_path)
    /\ LET path == resolve_path(s.include_path, Top.base_folder)
       IN  /\ validate_path(path, DefaultReadBytes) = NoIssue
           /\ CanReadJson(path)
           /\ Len(stack) < RecursionLimit
           /\ stack' = Append(stack, Frame(read_json(path), Top.base_folder))
    /\ UNCHANGED <<pc, issues, result, exception>>
    /\ ResolveFrame

(* lines 193-195: the recursive call *)
StepIncludeRecurse ==
    /\ AtStatement
    /\ s.kind = "include"
    /\ is_file(s.include_path)
    /\ LET path == resolve_path(s.include_path, Top.base_folder)
       IN  /\ validate_path(path, DefaultReadBytes) = NoIssue
           /\ CanReadJson(path)
           /\ Len(stack) < RecursionLimit
           /\ stack' = Append(stack, Frame(read_json(path), parent(path)))
    /\ UNCHANGED <<pc, issues, result, exception>>
    /\ ResolveFrame

(* lines 194-195: read_json raises, or the interpreter's recursion limit is *)
(* hit; the exception unwinds every call                                    *)
StepIncludeRaise ==
    /\ AtStatement
    /\ s.kind = "include"
    /\ is_file(s.include_path)
    /\ LET path == resolve_path(s.include_path, Top.base_folder)
       IN  /\ validate_path(path, DefaultReadBytes) = NoIssue
           /\ \/ ~CanReadJson(path)
              \/ Len(stack) >= RecursionLimit
           /\ exception' = IF ~CanReadJson(path) THEN "JSONDecodeError"
                           ELSE "RecursionError"
    /\ stack' = <<>>
    /\ pc' = "raised"
    /\ UNCHANGED <<issues, result>>
    /\ ResolveFrame

(* line 196 with the caller left at the include it has just read *)
ReturnKeepsCaller ==
    /\ pc = "resolving"
    /\ Top.i > Len(Top.statements)
    /\ IF Len(stack) = 1
       THEN /\ result' = Top.libs
            /\ stack' = <<>>
            /\ pc' = "returned"
       ELSE /\ stack' = [SubSeq(stack, 1, Len(stack) - 1)
                            EXCEPT ![Len(stack) - 1].libs = @ \o Top.libs]
            /\ UNCHANGED <<pc, result>>
    /\ UNCHANGED <<issues, exception>>
    /\ ResolveFrame

(* line 196, and line 195's libs += ... in the caller *)
Return ==
    /\ pc = "resolving"
    /\ Top.i > Len(Top.statements)
    /\ IF Len(stack) = 1
       THEN /\ result' = Top.libs
            /\ stack' = <<>>
            /\ pc' = "returned"
       ELSE /\ stack' = Advance([SubSeq(stack, 1, Len(stack) - 1)
                                  EXCEPT ![Len(stack) - 1].libs = @ \o Top.libs])
            /\ UNCHANGED <<pc, result>>
    /\ UNCHANGED <<issues, exception>>
    /\ ResolveFrame

NextResolve ==
    \/ StepComment
    \/ StepLibraryDefinition
    \/ StepIncludeNotAFile
    \/ StepIncludeFailed
    \/ StepIncludeRecurse
    \/ StepIncludeRaise
    \/ Return

SpecResolve == InitResolve /\ [][NextResolve]_vars

(* The flattening the statements denote: depth first, left to right, an     *)
(* include replaced by the definitions of its target when the target,       *)
(* resolved against base, is a valid parseable file.                        *)
RECURSIVE Flattening(_, _, _)
Flattening(stmts, base, depth) ==
    IF stmts = <<>> THEN <<>>
    ELSE LET st == Head(stmts)
             rest == Flattening(Tail(stmts), base, depth)
         IN  CASE st.kind = "comment" -> rest
               [] st.kind = "library" ->
                    <<LibraryDefinition(st.lib_name,
                                        resolve_path(st.lib_path, base))>> \o rest
               [] OTHER ->
                    LET path == resolve_path(st.include_path, base)
                    IN  IF /\ validate_path(path, DefaultReadBytes) = NoIssue
                           /\ CanReadJson(path)
                           /\ depth > 0
                        THEN Flattening(read_json(path), parent(path), depth - 1)
                             \o rest
                        ELSE rest

(* C10: effective_library_definitions returns exactly the depth-first,      *)
(* left-to-right flattening of the statements, every include with a valid   *)
(* parseable target (resolved against base_folder) spliced in at its place. *)
C10_ResultIsFlattening ==
    pc = "returned" => result = Flattening(config, base_folder, RecursionLimit)

-----------------------------------------------------------------------------
(* SpecCompare: on_manage_cell_library_map calling LibraryMapChanges.compare *)

MaxCompareStatements == 1

(* def effective_library_definitions(self, base_folder, issues): the        *)
(* parameters after self, none of which has a default                       *)
effective_library_definitions_params == <<"base_folder", "issues">>

(* compare, lines 54-55: the arguments of both calls, all positional *)
compare_call_args == <<"base_folder">>

(* Python's binding of positional arguments: the required parameters left   *)
(* without a value                                                          *)
MissingArguments(params, args) ==
    {params[i] : i \in (Len(args) + 1)..Len(params)}

ResolutionExceptions == {"JSONDecodeError", "RecursionError"}

InitCompare ==
    /\ pc = "manage"
    /\ old_config \in SeqsUpTo(TopStatements, MaxCompareStatements)
    /\ new_config \in SeqsUpTo(TopStatements, MaxCompareStatements)
    /\ fs \in FileSystems
    /\ cwd = W
    /\ config = <<>>
    /\ base_folder = W
    /\ stack = <<>>
    /\ issues = NoIssues
    /\ result = <<>>
    /\ exception = ""
    /\ DiffIdle
    /\ AuxIdle

(* on_manage_cell_library_map, lines 587-588: the dialog's result *)
DialogExec ==
    /\ pc = "manage"
    /\ \E dialog_result \in {0, 1} :
           pc' = IF dialog_result # 0 THEN "compare" ELSE "done"
    /\ UNCHANGED <<diffVars, resVars, cmpVars, auxVars>>

(* compare, line 54: new_config.effective_library_definitions(base_folder) *)
CompareResolveNew ==
    /\ pc = "compare"
    /\ IF MissingArguments(effective_library_definitions_params,
                           compare_call_args) # {}
       THEN /\ pc' = "raised"
            /\ exception' = "TypeError"
            /\ UNCHANGED <<config, stack>>
       ELSE /\ pc' = "resolving"
            /\ config' = new_config
            /\ stack' = <<Frame(new_config, base_folder)>>
            /\ UNCHANGED exception
    /\ UNCHANGED <<fs, cwd, base_folder, issues, result, diffVars, cmpVars, auxVars>>

(* on_manage_cell_library_map, lines 605-607: except Exception *)
OnManageExcept ==
    /\ pc = "raised"
    /\ pc' = "caught"
    /\ UNCHANGED <<diffVars, resVars, cmpVars, auxVars>>

NextCompare ==
    \/ DialogExec
    \/ CompareResolveNew
    \/ OnManageExcept

SpecCompare == InitCompare /\ [][NextCompare]_vars

(* C9: compare returns a ChangeSet with the Issues of new_config whenever   *)
(* resolution does not raise: the only exceptions that end it are those of  *)
(* resolution, never one for a missing issue accumulator.                   *)
C9_CompareFailsOnlyWhenResolutionRaises ==
    pc \in {"raised", "caught"} => exception \in ResolutionExceptions

-----------------------------------------------------------------------------
(* Spec: the diff of compare and the registry updates that follow it        *)

Init ==
    /\ pc = "compare"
    /\ old_lib_defs \in SeqsUpTo(DiffDefs, MaxOldDefs)
    /\ new_lib_defs \in SeqsUpTo(DiffDefs, MaxNewDefs)
    /\ handled_new_lib_defs = {}
    /\ added_libs = <<>>
    /\ removed_libs = <<>>
    /\ renamed_libs = <<>>
    /\ repathed_libs = <<>>
    /\ registry = LoadAll(old_lib_defs, NoRegistry)
    /\ has_0_30_5_api \in BOOLEAN
    /\ ResolutionIdle
    /\ CompareIdle
    /\ AuxIdle

(* compare, lines 57-80 *)
CompareOldLoop ==
    /\ pc = "compare"
    /\ LET acc == OldLoop(old_lib_defs_by_path_items, EmptyChanges)
       IN  /\ removed_libs' = acc.removed
           /\ renamed_libs' = acc.renamed
           /\ repathed_libs' = acc.repathed
           /\ handled_new_lib_defs' = acc.handled
    /\ pc' = "compare_new"
    /\ UNCHANGED <<old_lib_defs, new_lib_defs, added_libs, registry,
                   has_0_30_5_api, resVars, cmpVars, auxVars>>

(* compare, lines 82-90 *)
CompareNewLoop ==
    /\ pc = "compare_new"
    /\ LET acc == NewLoop(new_lib_defs,
                          [EmptyChanges EXCEPT !.handled = handled_new_lib_defs])
       IN  /\ added_libs' = acc.added
           /\ handled_new_lib_defs' = acc.handled
    /\ pc' = "compared"
    /\ UNCHANGED <<old_lib_defs, new_lib_defs, removed_libs, renamed_libs,
                   repathed_libs, registry, has_0_30_5_api, resVars, cmpVars, auxVars>>

ApplyStep(from, to, reg) ==
    /\ pc = from
    /\ pc' = to
    /\ registry' = reg
    /\ UNCHANGED <<old_lib_defs, new_lib_defs, handled_new_lib_defs,
                   added_libs, removed_libs, renamed_libs, repathed_libs,
                   has_0_30_5_api, resVars, cmpVars, auxVars>>

ApplyAdded == ApplyStep("compared", "apply_renamed",
                        ApplyAddedLoop(added_libs, registry))
ApplyRenamed == ApplyStep("apply_renamed", "apply_repathed",
                          ApplyRenamedLoop(renamed_libs, registry))
ApplyRepathed == ApplyStep("apply_repathed", "apply_removed",
                           ApplyRepathedLoop(repathed_libs, registry))
ApplyRemoved == ApplyStep("apply_removed", "applied",
                          ApplyRemovedLoop(removed_libs, registry))

Next ==
    \/ CompareOldLoop
    \/ CompareNewLoop
    \/ ApplyAdded
    \/ ApplyRenamed
    \/ ApplyRepathed
    \/ ApplyRemoved

Spec == Init /\ [][Next]_vars

-----------------------------------------------------------------------------
(* What compare reports, read off the four returned lists                    *)

Compared == pc \notin {"compare", "compare_new"}

TimesOldSide(pairs, d) == Cardinality({i \in 1..Len(pairs) : pairs[i][1] = d})
TimesNewSide(pairs, d) == Cardinality({i \in 1..Len(pairs) : pairs[i][2] = d})
TimesIn(defs, d) == Cardinality({i \in 1..Len(defs) : defs[i] = d})

B2N(b) == IF b THEN 1 ELSE 0

OldUnchanged(o) ==
    /\ o \in Range(new_lib_defs)
    /\ TimesOldSide(renamed_libs, o) = 0
    /\ TimesOldSide(repathed_libs, o) = 0
    /\ TimesIn(removed_libs, o) = 0

NewUnchanged(n) ==
    /\ TimesNewSide(renamed_libs, n) = 0
    /\ TimesNewSide(repathed_libs, n) = 0
    /\ TimesIn(added_libs, n) = 0

UniqueNames(defs) ==
    \A i, j \in 1..Len(defs) : defs[i].lib_name = defs[j].lib_name => i = j

(* C1: after compare every old definition is in exactly one of the classes  *)
(* unchanged, old side of exactly one renamed pair, old side of exactly one *)
(* repathed pair, member of removed_libs.                                   *)
C1_OldInExactlyOneClass ==
    Compared =>
        \A o \in Range(old_lib_defs) :
            B2N(OldUnchanged(o))
            + B2N(TimesOldSide(renamed_libs, o) = 1)
            + B2N(TimesOldSide(repathed_libs, o) = 1)
            + B2N(TimesIn(removed_libs, o) >= 1) = 1

(* C2: after compare every new definition is in exactly one of the classes  *)
(* unchanged (reported nowhere), new side of a renamed pair, new side of a  *)
(* repathed pair, member of added_libs; it is the new side of at most one   *)
(* pair and never both in a pair and in added_libs.                         *)
C2_NewInExactlyOneClass ==
    Compared =>
        \A n \in Range(new_lib_defs) :
            /\ B2N(NewUnchanged(n))
               + B2N(TimesNewSide(renamed_libs, n) >= 1)
               + B2N(TimesNewSide(repathed_libs, n) >= 1)
               + B2N(TimesIn(added_libs, n) >= 1) = 1
            /\ TimesNewSide(renamed_libs, n) + TimesNewSide(repathed_libs, n) <= 1

(* C3: applying the changes of compare(old, new) to a registry holding      *)
(* exactly the old definitions leaves it holding exactly the new ones, when *)
(* the names are unique within each configuration (rename and unregister    *)
(* being available in the registry's API).                                  *)
C3_ApplyYieldsNewRegistry ==
    (/\ pc = "applied"
     /\ has_0_30_5_api
     /\ UniqueNames(old_lib_defs)
     /\ UniqueNames(new_lib_defs))
        => registry = LoadAll(new_lib_defs, NoRegistry)

(* C4: comparing a configuration against itself reports nothing.            *)
C4_SelfCompareIsEmpty ==
    (Compared /\ old_lib_defs = new_lib_defs) =>
        /\ added_libs = <<>>
        /\ removed_libs = <<>>
        /\ renamed_libs = <<>>
        /\ repathed_libs = <<>>

(* C5: an old definition whose path some new definition has is classified   *)
(* by the path match only: renamed to a new definition at that path whose   *)
(* name differs, or unreported with a new definition of its name at that    *)
(* path; it is never repathed and never removed.                            *)
C5_PathMatchTakesPrecedence ==
    Compared =>
        \A o \in Range(old_lib_defs) :
            LET at_path == {n \in Range(new_lib_defs) : n.lib_path = o.lib_path}
            IN  at_path # {} =>
                    /\ TimesOldSide(repathed_libs, o) = 0
                    /\ TimesIn(removed_libs, o) = 0
                    /\ \/ \E n \in at_path :
                              /\ n.lib_name # o.lib_name
                              /\ <<o, n>> \in Range(renamed_libs)
                       \/ /\ TimesOldSide(renamed_libs, o) = 0
                          /\ \E n \in at_path : n.lib_name = o.lib_name

(* C6: an old definition whose path no new definition has is repathed to a  *)
(* new definition of its name, which is marked handled, when there is one,  *)
(* and removed when there is none; it is never renamed.                     *)
C6_NameMatchWhenNoPathMatch ==
    Compared =>
        \A o \in Range(old_lib_defs) :
            LET at_path == {n \in Range(new_lib_defs) : n.lib_path = o.lib_path}
                of_name == {n \in Range(new_lib_defs) : n.lib_name = o.lib_name}
            IN  at_path = {} =>
                    /\ TimesOldSide(renamed_libs, o) = 0
                    /\ IF of_name # {}
                       THEN /\ \E n \in of_name :
                                   /\ <<o, n>> \in Range(repathed_libs)
                                   /\ n \in handled_new_lib_defs
                            /\ TimesIn(removed_libs, o) = 0
                       ELSE /\ o \in Range(removed_libs)
                            /\ TimesOldSide(repathed_libs, o) = 0

(* C7: when (n1, p1) is replaced by (n2, p2) with both name and path        *)
(* changed, no new definition has name n1 or path p1 and no old definition  *)
(* has name n2 or path p2, then (n1, p1) is removed, (n2, p2) is added and  *)
(* neither is part of a renamed or repathed pair.                           *)
C7_AmbiguousChangeIsRemovePlusAdd ==
    Compared =>
        \A o \in Range(old_lib_defs), n \in Range(new_lib_defs) :
            (/\ o.lib_name # n.lib_name
             /\ o.lib_path # n.lib_path
             /\ \A m \in Range(new_lib_defs) :
                    m.lib_name # o.lib_name /\ m.lib_path # o.lib_path
             /\ \A m \in Range(old_lib_defs) :
                    m.lib_name # n.lib_name /\ m.lib_path # n.lib_path)
                => /\ o \in Range(removed_libs)
                   /\ n \in Range(added_libs)
                   /\ TimesOldSide(renamed_libs, o) = 0
                   /\ TimesOldSide(repathed_libs, o) = 0
                   /\ TimesNewSide(renamed_libs, n) = 0
                   /\ TimesNewSide(repathed_libs, n) = 0

(* C8: added_libs holds only new definitions that no old definition equals, *)
(* each at most once, and every new definition the loop over the old        *)
(* definitions did not mark handled.                                        *)
C8_AddedAreExactlyTheUnhandledNew ==
    Compared =>
        /\ \A i \in 1..Len(added_libs) :
               /\ added_libs[i] \in Range(new_lib_defs)
               /\ added_libs[i] \notin Range(old_lib_defs)
               /\ TimesIn(added_libs, added_libs[i]) = 1
        /\ \A n \in Range(new_lib_defs) :
               n \notin OldLoop(old_lib_defs_by_path_items, EmptyChanges).handled
                   => n \in Range(added_libs)

-----------------------------------------------------------------------------
(* Resolution, statement by statement                                        *)

(* The file an include or library statement st of the innermost call points *)
(* at, its path resolved against that call's base_folder                    *)
TargetPath(st) ==
    resolve_path(IF st.kind = "include" THEN st.include_path ELSE st.lib_path,
                 Top.base_folder)
TargetIsGoodFile(st) ==
    Stat(TargetPath(st)).kind = "file" /\ Stat(TargetPath(st)).readable

(* C11: an include whose target, resolved against base_folder, does not     *)
(* exist or is no regular readable file neither raises nor is recursed      *)
(* into, contributes nothing, and appends exactly one (include, reason)     *)
(* entry to issues.failed_includes.                                         *)
C11_BadIncludeRecordsOneIssue ==
    [][(AtStatement /\ s.kind = "include" /\ ~TargetIsGoodFile(s)) =>
          /\ pc' = "resolving"
          /\ Len(stack') = Len(stack)
          /\ stack'[Len(stack)].libs = Top.libs
          /\ Len(issues'.failed_includes) = Len(issues.failed_includes) + 1
          /\ SubSeq(issues'.failed_includes, 1, Len(issues.failed_includes))
                 = issues.failed_includes
          /\ issues'.failed_includes[Len(issues'.failed_includes)][1] = s
          /\ issues'.failed_libraries = issues.failed_libraries]_vars

NestedCallsFollowIncludes ==
    /\ stack # <<>> => stack[1].base_folder = base_folder
    /\ \A k \in 1..(Len(stack) - 1) :
           LET caller == stack[k]
               inc == caller.statements[caller.i]
               path == resolve_path(inc.include_path, caller.base_folder)
           IN  /\ inc.kind = "include"
               /\ stack[k + 1].statements = Stat(path).statements
               /\ stack[k + 1].base_folder = parent(path)

(* C13: an include's path is resolved against the base_folder of the        *)
(* configuration holding it, and every library path of an included file is  *)
(* resolved against that file's parent directory, at every nesting depth.   *)
C13_PathsResolveAgainstContainingFile ==
    [][/\ NestedCallsFollowIncludes'
       /\ (AtStatement /\ s.kind = "library") =>
              LET libs == stack'[Len(stack)].libs
              IN  libs[Len(libs)].lib_path =
                      resolve_path(s.lib_path, parent(
                          IF Len(stack) = 1 THEN base_folder \o <<"map.klib">>
                          ELSE resolve_path(
                                   stack[Len(stack) - 1].statements[
                                       stack[Len(stack) - 1].i].include_path,
                                   stack[Len(stack) - 1].base_folder)))]_vars

C13_Witness ==
    /\ pc = "returned"
    /\ config = <<LibraryMapInclude(<<"/", "inc", "x.klib">>)>>
    /\ base_folder = W
    /\ result = <<LibraryDefinition("B", INC \o <<"a.gds">>),
                  LibraryDefinition("C", W \o <<"a.gds">>)>>

(* C14: an include whose target exists and is readable but does not parse   *)
(* as a configuration makes effective_library_definitions raise: no issue   *)
(* is recorded and no list is returned.                                     *)
C14_UnparseableIncludeRaises ==
    [][(/\ AtStatement
        /\ s.kind = "include"
        /\ TargetIsGoodFile(s)
        /\ ~Stat(TargetPath(s)).parses) =>
          /\ pc' = "raised"
          /\ exception' = "JSONDecodeError"
          /\ issues' = issues
          /\ result' = result]_vars

-----------------------------------------------------------------------------
(* SpecJson: json_string followed by from_json_string                       *)

MaxJsonStatements == 2

(* str(path), as the JSON encoder writes a Path: the components with "/"    *)
(* between them, "." for the empty path; a text is a sequence of pieces     *)
RECURSIVE JoinComponents(_)
JoinComponents(cs) ==
    IF Len(cs) <= 1 THEN cs
    ELSE <<Head(cs), "/">> \o JoinComponents(Tail(cs))

JSONEncoderSupportingPaths(path) ==
    IF path = <<>> THEN <<".">>
    ELSE IF is_absolute(path) THEN <<"/">> \o JoinComponents(Tail(path))
    ELSE JoinComponents(path)

(* Path(text): split at "/", "." components dropped *)
IsComponent(piece) == piece \notin {"/", "."}
PathFromStr(text) ==
    (IF text # <<>> /\ text[1] = "/" THEN <<"/">> ELSE <<>>)
        \o SelectSeq(text, IsComponent)

(* dataclasses.asdict of one statement: its fields, not its class *)
asdict(st) ==
    CASE st.kind = "comment" -> [comment |-> st.comment]
      [] st.kind = "library" -> [lib_name |-> st.lib_name,
                                 lib_path |-> JSONEncoderSupportingPaths(st.lib_path)]
      [] OTHER -> [include_path |-> JSONEncoderSupportingPaths(st.include_path)]

(* LibraryMapConfig.json_string *)
json_string(cfg) ==
    [technology |-> cfg.technology,
     statements |-> [i \in 1..Len(cfg.statements) |-> asdict(cfg.statements[i])]]

(* dataclass_from_dict for a LibraryMapStatement: the member of the Union   *)
(* whose fields are the keys of the dict, Path fields built from their text *)
dataclass_from_dict(d) ==
    CASE DOMAIN d = {"comment"} -> LibraryMapComment(d.comment)
      [] DOMAIN d = {"lib_name", "lib_path"} ->
             LibraryDefinitionStatement(d.lib_name, PathFromStr(d.lib_path))
      [] OTHER -> LibraryMapInclude(PathFromStr(d.include_path))

(* from_json_string with the technology left at the dataclass default *)
from_json_string_default_technology(data) ==
    [technology |-> "",
     statements |-> [i \in 1..Len(data.statements) |->
                        dataclass_from_dict(data.statements[i])]]

(* LibraryMapConfig.from_json_string *)
from_json_string(data) ==
    [technology |-> data.technology,
     statements |-> [i \in 1..Len(data.statements) |->
                        dataclass_from_dict(data.statements[i])]]

JsonStatements ==
    TopStatements
    \cup {LibraryMapComment(""), LibraryMapInclude(<<>>),
          LibraryDefinitionStatement("", <<"/">>),
          LibraryDefinitionStatement("A", <<"~", "lib", "a.gds">>)}

InitJson ==
    /\ pc = "json"
    /\ json_call \in
           {[config |-> [technology |-> t, statements |-> st],
             json |-> NoConfig, obtained |-> NoConfig] :
                t \in {"", "sg13g2"},
                st \in SeqsUpTo(JsonStatements, MaxJsonStatements)}
    /\ path_call = NoPathCall
    /\ first_call = NoFirstCall
    /\ message = NoMessage
    /\ UiIdle
    /\ DiffIdle
    /\ ResolutionIdle
    /\ CompareIdle

(* test_read_write_example_library_map, line 214: self.config.json_string() *)
JsonString ==
    /\ pc = "json"
    /\ json_call' = [json_call EXCEPT !.json = json_string(json_call.config)]
    /\ pc' = "serialized"
    /\ UNCHANGED <<diffVars, resVars, cmpVars, path_call, first_call, message,
                   uiVars>>

(* line 214: LibraryMapConfig.from_json_string(...) *)
FromJsonString ==
    /\ pc = "serialized"
    /\ json_call' = [json_call EXCEPT !.obtained = from_json_string(json_call.json)]
    /\ pc' = "parsed"
    /\ UNCHANGED <<diffVars, resVars, cmpVars, path_call, first_call, message,
                   uiVars>>

NextJson ==
    \/ JsonString
    \/ FromJsonString

SpecJson == InitJson /\ [][NextJson]_vars

(* C15: from_json_string(c.json_string()) has the technology of c and the   *)
(* statements of c in the same order, each of the same kind with equal      *)
(* comment text, library name, library path and include path.               *)
C15_JsonRoundTrip ==
    pc = "parsed" =>
        /\ json_call.obtained.technology = json_call.config.technology
        /\ Len(json_call.obtained.statements) = Len(json_call.config.statements)
        /\ \A i \in 1..Len(json_call.config.statements) :
               LET a == json_call.config.statements[i]
                   b == json_call.obtained.statements[i]
               IN  /\ a.kind = b.kind
                   /\ a.kind = "comment" => a.comment = b.comment
                   /\ a.kind = "library" =>
                          a.lib_name = b.lib_name /\ a.lib_path = b.lib_path
                   /\ a.kind = "include" => a.include_path = b.include_path

C15_Witness ==
    /\ pc = "parsed"
    /\ json_call.config.technology = "sg13g2"
    /\ json_call.config.statements =
           <<LibraryDefinitionStatement("A", <<"/", "inc", "a.gds">>),
             LibraryMapInclude(<<"..", "inc", "x.klib">>)>>
    /\ json_call.json.statements[1].lib_path = <<"/", "inc", "/", "a.gds">>
    /\ json_call.obtained = json_call.config

(* C16: effective_library_definitions terminates for every configuration    *)
(* over a finite set of files, whatever the include graph: a call that has  *)
(* ended has returned its list or has raised a parse error.                 *)
C16_EndsByReturnOrParseError ==
    /\ pc \in {"resolving", "returned", "raised"}
    /\ pc = "resolving" => Len(stack) \in 1..RecursionLimit
    /\ pc = "raised" => exception = "JSONDecodeError"

-----------------------------------------------------------------------------
(* SpecPath: one call of resolve_path                                       *)

MaxPathLen == 2

PathComponents == {"a.gds", "foo.lib", ".", ".."}
PathInputs ==
    {prefix \o rest : prefix \in {<<>>, <<"/">>, <<"~">>, <<"/", "w">>},
                      rest \in SeqsUpTo(PathComponents, MaxPathLen)}
BaseFolders ==
    {W, INC, <<"/", "x", "y">>, <<"/">>, <<"w">>, <<"/", "w", "..", "inc">>}

InitPath ==
    /\ pc = "path"
    /\ fs \in {f \in FileSystems :
                 /\ f[W \o <<"x.klib">>] = Missing
                 /\ f[INC \o <<"x.klib">>] = Missing}
    /\ cwd \in {W, INC}
    /\ path_call \in {[path |-> p, base_folder |-> b, returned |-> <<>>] :
                         p \in PathInputs, b \in BaseFolders}
    /\ config = <<>>
    /\ base_folder = <<>>
    /\ stack = <<>>
    /\ issues = NoIssues
    /\ result = <<>>
    /\ exception = ""
    /\ first_call = NoFirstCall
    /\ message = NoMessage
    /\ json_call = NoJsonCall
    /\ UiIdle
    /\ DiffIdle
    /\ CompareIdle

(* lines 146-151 *)
ResolvePath ==
    /\ pc = "path"
    /\ path_call' = [path_call EXCEPT
                        !.returned = resolve_path(path_call.path,
                                                  path_call.base_folder)]
    /\ pc' = "path_returned"
    /\ UNCHANGED <<diffVars, resVars, cmpVars, first_call, message, json_call,
                   uiVars>>

NextPath == ResolvePath

SpecPath == InitPath /\ [][NextPath]_vars

Canonical(p) == is_absolute(p) /\ \A i \in 1..Len(p) : p[i] \notin {".", ".."}
Plain(p) == \A i \in 1..Len(p) : p[i] \notin {".", "..", "~"}

(* C17: resolve_path returns an absolute canonical path; a path that is     *)
(* relative is joined under base_folder and canonicalized ("foo.lib" under  *)
(* /x/y gives /x/y/foo.lib); an absolute path is returned unchanged up to   *)
(* canonicalization, whatever base_folder is; the call returns whether the  *)
(* target exists or not.                                                    *)
C17_ResolvePathAbsolute ==
    pc = "path_returned" =>
        LET path == path_call.path
            base == path_call.base_folder
            returned == path_call.returned
            home == path # <<>> /\ path[1] = "~"
        IN  /\ Canonical(returned)
            /\ (~is_absolute(path) /\ ~home /\ Canonical(base)) =>
                   /\ returned = PathResolve(<<>>, base \o path)
                   /\ Plain(path) => returned = base \o path
            /\ is_absolute(path) =>
                   /\ returned = PathResolve(<<>>, path)
                   /\ Plain(path) => returned = path
                   /\ \A other \in BaseFolders :
                          resolve_path(path, other) = returned
            /\ (path = <<"foo.lib">> /\ base = <<"/", "x", "y">>) =>
                   returned = <<"/", "x", "y", "foo.lib">>

C17_Witness ==
    /\ pc = "path_returned"
    /\ path_call.path = <<"foo.lib">>
    /\ path_call.base_folder = <<"/", "x", "y">>
    /\ path_call.returned = <<"/", "x", "y", "foo.lib">>
    /\ ~exists(path_call.returned)

-----------------------------------------------------------------------------
(* SpecFrame: a call of effective_library_definitions or a call of compare  *)

InitFrame ==
    \/ InitResolve
    \/ InitCompare

NextFrame ==
    \/ NextResolve
    \/ NextCompare

SpecFrame == InitFrame /\ [][NextFrame]_vars

IsPrefix(a, b) == Len(a) <= Len(b) /\ SubSeq(b, 1, Len(a)) = a

(* C18: effective_library_definitions leaves the configuration unchanged    *)
(* and only appends to the issues: what was there stays, in order, and a    *)
(* step adds at most one entry, at the end, about the statement it is at,   *)
(* so that entries are in traversal order across nested includes; compare   *)
(* leaves both configurations unchanged.                                    *)
C18_FrameAndAppendOnly ==
    [][/\ config' = config
       /\ old_config' = old_config
       /\ new_config' = new_config
       /\ fs' = fs
       /\ IsPrefix(issues.failed_libraries, issues'.failed_libraries)
       /\ IsPrefix(issues.failed_includes, issues'.failed_includes)
       /\ Len(issues'.failed_libraries) + Len(issues'.failed_includes)
              <= Len(issues.failed_libraries) + Len(issues.failed_includes) + 1
       /\ issues'.failed_libraries # issues.failed_libraries =>
              /\ AtStatement
              /\ issues'.failed_libraries[Len(issues'.failed_libraries)][1] = s
       /\ issues'.failed_includes # issues.failed_includes =>
              /\ AtStatement
              /\ issues'.failed_includes[Len(issues'.failed_includes)][1] = s]_vars

C18_Witness ==
    /\ pc = "returned"
    /\ Len(config) = 2
    /\ Len(issues.failed_libraries) >= 2
    /\ issues.failed_libraries[1][1] = config[1]
    /\ issues.failed_libraries[2][1] \notin Range(config)
    /\ Len(issues.failed_includes) = 0

-----------------------------------------------------------------------------
(* SpecTwice: the libraries of one map are reloaded a second time           *)

MaxTwiceStatements == 1

InitTwice ==
    /\ pc = "resolving"
    /\ fs \in FileSystems
    /\ cwd \in {W, INC}
    /\ config \in SeqsUpTo(TopStatements, MaxTwiceStatements)
    /\ base_folder = W
    /\ stack = <<Frame(config, base_folder)>>
    /\ issues = NoIssues
    /\ result = <<>>
    /\ exception = ""
    /\ DiffIdle
    /\ CompareIdle
    /\ AuxIdle

(* on_reload_cell_libraries triggered again, reload_cell_libraries lines    *)
(* 697-699: a fresh LibraryMapIssues, the same config and parent_dir, the   *)
(* files as they were; the working directory is the one the process has by  *)
(* then                                                                     *)
CallAgain ==
    /\ pc \in {"returned", "raised"}
    /\ first_call.calls = 0
    /\ first_call' = [calls |-> 1, pc |-> pc, result |-> result,
                      issues |-> issues, exception |-> exception]
    /\ cwd' \in {W, INC}
    /\ pc' = "resolving"
    /\ stack' = <<Frame(config, base_folder)>>
    /\ issues' = NoIssues
    /\ result' = <<>>
    /\ exception' = ""
    /\ UNCHANGED <<fs, config, base_folder, diffVars, cmpVars, path_call,
                   message, json_call, uiVars>>

NextTwice ==
    \/ NextResolve
    \/ CallAgain

SpecTwice == InitTwice /\ [][NextTwice]_vars

(* C19: two calls of effective_library_definitions on the same              *)
(* configuration and base_folder, each with a fresh issue accumulator and   *)
(* with the files unchanged between them, end the same way: the same        *)
(* definitions in the same order and the same issues in the same order.     *)
C19_SecondCallSameOutcome ==
    (first_call.calls = 1 /\ pc \in {"returned", "raised"}) =>
        /\ pc = first_call.pc
        /\ result = first_call.result
        /\ issues = first_call.issues
        /\ exception = first_call.exception

-----------------------------------------------------------------------------
(* SpecRichText: one call of LibraryMapIssues.rich_text                     *)

MaxIssues == 2

(* The text is a sequence of pieces; an entry piece carries the values the  *)
(* f-string puts in: name, str(path), reason.                               *)
Piece(text) == [piece |-> text, lib_name |-> "", path |-> <<>>, reason |-> ""]

(* line 72-73: one failed library *)
LibraryPiece(entry) ==
    [piece |-> "library", lib_name |-> entry[1].lib_name,
     path |-> JSONEncoderSupportingPaths(entry[1].lib_path),
     reason |-> entry[2]]

(* lines 79-80: one failed include *)
IncludePiece(entry) ==
    [piece |-> "include", lib_name |-> "",
     path |-> JSONEncoderSupportingPaths(entry[1].include_path),
     reason |-> entry[2]]

(* rich_text that writes both section headers whatever the lists hold *)
rich_text_all_sections(iss) ==
    <<Piece("Detected issues with library map.")>>
    \o <<Piece("Failed libraries:")>>
    \o [i \in 1..Len(iss.failed_libraries) |->
           LibraryPiece(iss.failed_libraries[i])]
    \o <<Piece("<br/>")>>
    \o <<Piece("Failed includes:")>>
    \o [i \in 1..Len(iss.failed_includes) |->
           IncludePiece(iss.failed_includes[i])]

(* LibraryMapIssues.rich_text *)
rich_text(iss) ==
    <<Piece("Detected issues with library map.")>>
    \o (IF Len(iss.failed_libraries) > 0
        THEN <<Piece("Failed libraries:")>>
             \o [i \in 1..Len(iss.failed_libraries) |->
                    LibraryPiece(iss.failed_libraries[i])]
             \o <<Piece("<br/>")>>
        ELSE <<>>)
    \o (IF Len(iss.failed_includes) > 0
        THEN <<Piece("Failed includes:")>>
             \o [i \in 1..Len(iss.failed_includes) |->
                    IncludePiece(iss.failed_includes[i])]
        ELSE <<>>)

FailedLibraries ==
    {<<LibraryDefinitionStatement(n, <<"a.gds">>), reason>> :
        n \in {"A", "B"},
        reason \in {"File does not exist", "Not a regular file"}}
FailedIncludes ==
    {<<LibraryMapInclude(path), reason>> :
        path \in {<<"x.klib">>, <<"/", "inc", "x.klib">>},
        reason \in {"File does not exist", "Unreadable"}}

InitRichText ==
    /\ pc = "render"
    /\ issues \in {[failed_libraries |-> fl, failed_includes |-> fi] :
                      fl \in SeqsUpTo(FailedLibraries, MaxIssues),
                      fi \in SeqsUpTo(FailedIncludes, MaxIssues)}
    /\ fs = [f \in {} |-> Missing]
    /\ cwd = W
    /\ config = <<>>
    /\ base_folder = W
    /\ stack = <<>>
    /\ result = <<>>
    /\ exception = ""
    /\ path_call = NoPathCall
    /\ first_call = NoFirstCall
    /\ message = NoMessage
    /\ json_call = NoJsonCall
    /\ UiIdle
    /\ DiffIdle
    /\ CompareIdle

(* lines 68-81 *)
RichText ==
    /\ pc \in {"render", "rendered"}
    /\ message' = rich_text(issues)
    /\ pc' = "rendered"
    /\ UNCHANGED <<diffVars, resVars, cmpVars, path_call, first_call, json_call,
                   uiVars>>

NextRichText == RichText

SpecRichText == InitRichText /\ [][NextRichText]_vars

IsLibraryEntry(m) == m.piece = "library"
IsIncludeEntry(m) == m.piece = "include"
PositionsOf(text) == {i \in 1..Len(message) : message[i].piece = text}

(* C20: rich_text has a 'Failed libraries' section iff failed_libraries is  *)
(* non-empty and a 'Failed includes' section iff failed_includes is         *)
(* non-empty; under its header each non-empty list has every entry once,    *)
(* with its reason, in list order; a further call gives the same text.      *)
C20_RichTextSections ==
    pc = "rendered" =>
        LET libs == SelectSeq(message, IsLibraryEntry)
            incs == SelectSeq(message, IsIncludeEntry)
            fl == issues.failed_libraries
            fi == issues.failed_includes
        IN  /\ Cardinality(PositionsOf("Failed libraries:")) =
                   IF fl # <<>> THEN 1 ELSE 0
            /\ Cardinality(PositionsOf("Failed includes:")) =
                   IF fi # <<>> THEN 1 ELSE 0
            /\ Len(libs) = Len(fl)
            /\ \A i \in 1..Len(fl) :
                   /\ libs[i].lib_name = fl[i][1].lib_name
                   /\ PathFromStr(libs[i].path) = fl[i][1].lib_path
                   /\ libs[i].reason = fl[i][2]
            /\ Len(incs) = Len(fi)
            /\ \A i \in 1..Len(fi) :
                   /\ PathFromStr(incs[i].path) = fi[i][1].include_path
                   /\ incs[i].reason = fi[i][2]
            /\ \A h \in PositionsOf("Failed libraries:") :
                   PositionsOf("library") = (h + 1)..(h + Len(fl))
            /\ \A h \in PositionsOf("Failed includes:") :
                   PositionsOf("include") = (h + 1)..(h + Len(fi))
            /\ ENABLED RichText => message = rich_text(issues)

C20_Witness ==
    /\ pc = "rendered"
    /\ Len(issues.failed_libraries) = 2
    /\ issues.failed_libraries[1] # issues.failed_libraries[2]
    /\ Len(issues.failed_includes) = 2
    /\ Len(message) = 8

-----------------------------------------------------------------------------
(* SpecValidate: one call of validate_path                                  *)

ReadBytes == {0, 1, DefaultReadBytes}

ValidateFileSystems ==
    {[f \in {W \o <<"a.gds">>, INC \o <<"a.gds">>} |->
        IF f = W \o <<"a.gds">> THEN wa ELSE ia] :
        wa \in {Missing, Blob, Unreadable, Directory, Denied},
        ia \in {Blob, Unreadable}}

ValidatePaths ==
    {<<"a.gds">>, W \o <<"a.gds">>, INC \o <<"a.gds">>, W,
     <<"..", "w", "a.gds">>, <<"b.gds">>}

InitValidate ==
    /\ pc = "validate"
    /\ fs \in ValidateFileSystems
    /\ cwd \in {W, INC}
    /\ validate_call \in {[path |-> p, read_bytes |-> n, returned |-> "",
                           raised |-> ""] :
                             p \in ValidatePaths, n \in ReadBytes}
    /\ config = <<>>
    /\ base_folder = W
    /\ stack = <<>>
    /\ issues = NoIssues
    /\ result = <<>>
    /\ exception = ""
    /\ path_call = NoPathCall
    /\ first_call = NoFirstCall
    /\ message = NoMessage
    /\ json_call = NoJsonCall
    /\ reload = NoReload
    /\ dialog = NoDialog
    /\ copy_call = NoCopyCall
    /\ DiffIdle
    /\ CompareIdle

(* lines 156-168, stat() answering *)
ValidatePathReturns ==
    /\ pc = "validate"
    /\ validate_call' =
           [validate_call EXCEPT
               !.returned = validate_path(validate_call.path,
                                          validate_call.read_bytes)]
    /\ pc' = "validated"
    /\ UNCHANGED <<diffVars, resVars, cmpVars, path_call, first_call, message,
                   json_call, reload, dialog, copy_call>>

(* line 157: path.exists() outside any try, stat() failing with EACCES *)
ValidatePathRaises ==
    /\ pc = "validate"
    /\ StatDenied(validate_call.path)
    /\ validate_call' = [validate_call EXCEPT !.raised = "PermissionError"]
    /\ pc' = "validated"
    /\ UNCHANGED <<diffVars, resVars, cmpVars, path_call, first_call, message,
                   json_call, reload, dialog, copy_call>>

NextValidate ==
    \/ ValidatePathReturns
    \/ ValidatePathRaises

SpecValidate == InitValidate /\ [][NextValidate]_vars

(* C21: validate_path returns a reason and never raises, checking in a      *)
(* fixed order: 'File does not exist' when the path does not exist, else    *)
(* 'Not a regular file' when it is not a regular file, else 'Unreadable'    *)
(* when read_bytes > 0 and the file cannot be opened and read, else None;   *)
(* with read_bytes = 0 an existing regular file is always valid.            *)
C21_ValidatePathReasonNeverRaises ==
    pc = "validated" =>
        LET st == Stat(FromCwd(validate_call.path))
        IN  /\ validate_call.raised = ""
            /\ validate_call.returned =
                   IF st.kind \notin {"file", "dir"} THEN "File does not exist"
                   ELSE IF st.kind = "dir" THEN "Not a regular file"
                   ELSE IF validate_call.read_bytes > 0 /\ ~st.readable
                        THEN "Unreadable"
                   ELSE NoIssue

-----------------------------------------------------------------------------
(* The include graph of the files, by resolved path *)

IsValidInclude(path) ==
    validate_path(path, DefaultReadBytes) = NoIssue /\ CanReadJson(path)

IncludedBy(stmts, base) ==
    {path \in {resolve_path(stmts[i].include_path, base) :
                  i \in {k \in 1..Len(stmts) : stmts[k].kind = "include"}} :
        IsValidInclude(path)}

RECURSIVE ReachableFrom(_, _)
ReachableFrom(files, n) ==
    IF n = 0 THEN files
    ELSE ReachableFrom(
             files \cup UNION {IncludedBy(read_json(f), parent(f)) : f \in files},
             n - 1)

IncludedFiles == ReachableFrom(IncludedBy(config, base_folder),
                               Cardinality(DOMAIN fs))

IncludeCycle ==
    \E f \in IncludedFiles :
        f \in ReachableFrom(IncludedBy(read_json(f), parent(f)),
                            Cardinality(DOMAIN fs))

(* C22: when a valid, parseable configuration file includes itself,         *)
(* directly or through valid includes, effective_library_definitions never  *)
(* returns a result: it re-enters the file until the call is ended by the   *)
(* recursion limit, and no issue is recorded for the cycle.                 *)
C22_CycleNeverReturns ==
    (pc \in {"resolving", "returned", "raised"} /\ IncludeCycle) =>
        /\ pc # "returned"
        /\ pc = "raised" => exception \in ResolutionExceptions
        /\ \A i \in 1..Len(issues.failed_includes) :
               ~IsValidInclude(resolve_path(
                    issues.failed_includes[i][1].include_path, base_folder))

-----------------------------------------------------------------------------
(* C23: the classes compare reports are sound: a renamed pair has the same  *)
(* path and different names; a repathed pair has the same name, different   *)
(* paths and no new definition at the old path; a removed definition is an  *)
(* old one whose path and whose name no new definition has.                 *)
C23_ReportedClassesSound ==
    Compared =>
        /\ \A i \in 1..Len(renamed_libs) :
               LET old == renamed_libs[i][1]
                   new == renamed_libs[i][2]
               IN  /\ old \in Range(old_lib_defs)
                   /\ new \in Range(new_lib_defs)
                   /\ old.lib_path = new.lib_path
                   /\ old.lib_name # new.lib_name
        /\ \A i \in 1..Len(repathed_libs) :
               LET old == repathed_libs[i][1]
                   new == repathed_libs[i][2]
               IN  /\ old \in Range(old_lib_defs)
                   /\ new \in Range(new_lib_defs)
                   /\ old.lib_name = new.lib_name
                   /\ old.lib_path # new.lib_path
                   /\ \A n \in Range(new_lib_defs) : n.lib_path # old.lib_path
        /\ \A i \in 1..Len(removed_libs) :
               LET old == removed_libs[i]
               IN  /\ old \in Range(old_lib_defs)
                   /\ \A n \in Range(new_lib_defs) :
                          /\ n.lib_path # old.lib_path
                          /\ n.lib_name # old.lib_name

C23_Witness ==
    /\ Compared
    /\ Len(renamed_libs) = 1
    /\ Len(repathed_libs) = 1
    /\ renamed_libs[1][2] # repathed_libs[1][2]

-----------------------------------------------------------------------------
(* SpecResolveFair: a call of effective_library_definitions that is not     *)
(* held up: the interpreter goes on to the next statement                   *)

InitCall ==
    /\ pc = "call"
    /\ ResolutionIdle
    /\ DiffIdle
    /\ CompareIdle
    /\ AuxIdle

(* reload_cell_libraries, lines 697-699: the call, with the files and the   *)
(* working directory as they are by then                                    *)
CallEffectiveLibraryDefinitions ==
    /\ pc = "call"
    /\ fs' \in {f \in FileSystems : /\ f[W \o <<"a.gds">>] = Missing
                                    /\ f[INC \o <<"a.gds">>] = Blob}
    /\ cwd' \in {W, INC}
    /\ config' \in SeqsUpTo({st \in TopStatements :
                                st.kind = "library" =>
                                    st = LibraryDefinitionStatement("A", <<"a.gds">>)},
                            MaxStatements)
    /\ stack' = <<Frame(config', base_folder)>>
    /\ pc' = "resolving"
    /\ UNCHANGED <<base_folder, issues, result, exception, diffVars, cmpVars,
                   auxVars>>

NextResolveFair ==
    \/ CallEffectiveLibraryDefinitions
    \/ NextResolve

(* Weak fairness of NextResolve, WF_vars(NextResolve), with its enabling     *)
(* condition written out: a step of NextResolve is possible exactly while   *)
(* pc = "resolving"                                                         *)
NotHeldUp == []<>(pc # "resolving") \/ []<><<NextResolve>>_vars

SpecResolveFair == InitCall /\ [][NextResolveFair]_vars /\ NotHeldUp

Below(frames, n) == SubSeq(frames, 1, n)

(* One statement occurrence handled by a step: the innermost call moves on  *)
(* by one, or a call for the include it is at is entered at its first       *)
(* statement, or the innermost call returns its list to the caller, which   *)
(* moves on past the include.                                               *)
OncePerOccurrence ==
    pc = "resolving" =>
        \/ pc' \in {"returned", "raised"}
        \/ /\ Len(stack') = Len(stack)
           /\ AtStatement
           /\ Below(stack', Len(stack) - 1) = Below(stack, Len(stack) - 1)
           /\ stack'[Len(stack')].statements = Top.statements
           /\ stack'[Len(stack')].i = Top.i + 1
        \/ /\ Len(stack') = Len(stack) + 1
           /\ AtStatement
           /\ s.kind = "include"
           /\ Below(stack', Len(stack)) = stack
           /\ stack'[Len(stack')].i = 1
           /\ stack'[Len(stack')].libs = <<>>
        \/ /\ Len(stack') = Len(stack) - 1
           /\ ~AtStatement
           /\ Below(stack', Len(stack) - 2) = Below(stack, Len(stack) - 2)
           /\ stack'[Len(stack')].i = stack[Len(stack')].i + 1
           /\ stack'[Len(stack')].libs = stack[Len(stack')].libs \o Top.libs

(* C24: when the include graph reachable from the configuration is acyclic, *)
(* effective_library_definitions terminates, and it handles every include   *)
(* statement occurrence exactly once: a file included from two places is    *)
(* read and flattened once per occurrence.                                  *)
C24_AcyclicTerminatesOncePerOccurrence ==
    /\ [][OncePerOccurrence]_vars
    /\ [](~IncludeCycle => exception # "RecursionError")
    /\ (pc = "resolving" /\ ~IncludeCycle) ~> (pc \in {"returned", "raised"})

C24_Witness ==
    /\ pc = "returned"
    /\ ~IncludeCycle
    /\ Len(config) = 2
    /\ config[1] = config[2]
    /\ config[1].kind = "include"
    /\ Len(result) = 4
    /\ SubSeq(result, 1, 2) = SubSeq(result, 3, 4)
    /\ result[1] # result[2]

-----------------------------------------------------------------------------
(* reload_cell_libraries (plugin lines 693-735): the resolution of lines    *)
(* 698-699 is the call of SpecResolve, then handle_issues(issues) and       *)
(* handle_issues(loading_issues).                                            *)

(* report_library_map_issues, lines 323-343: what it can return. With       *)
(* nothing to report it returns NONE without a dialog; otherwise the button *)
(* the user pressed decides (0 Cancel, 1 Close Layout, 2 Edit Map,          *)
(* 3 Ignore).                                                                *)
report_library_map_issues(iss) ==
    IF iss.failed_libraries = <<>> /\ iss.failed_includes = <<>>
    THEN {"NONE"}
    ELSE {"LOAD_NOTHING", "CLOSE_LAYOUT", "EDIT_MAP", "LOAD_LOADABLES"}

(* lib.layout().read(path) succeeds on a readable file *)
CanReadLayout(path) ==
    Stat(FromCwd(path)).kind = "file" /\ Stat(FromCwd(path)).readable

(* A registered library after lib.layout().clear() whose read then failed *)
Cleared == <<"">>

(* lines 715-729: one definition of the load loop. st is the registry, the  *)
(* failed_libraries of loading_issues and the log of the reads attempted.   *)
ReloadOne(st, lib_def) ==
    LET lib == library_by_name(st.registry, lib_def.lib_name)
    IN  [registry |->
             IF CanReadLayout(lib_def.lib_path)
             THEN ReadInto(st.registry, lib_def)
             ELSE IF lib = NoLib THEN st.registry
                  ELSE [st.registry EXCEPT ![lib_def.lib_name] = Cleared],
         failed |->
             IF CanReadLayout(lib_def.lib_path) THEN st.failed
             ELSE Append(st.failed, <<lib_def, "read failed">>),
         reads |-> Append(st.reads, lib_def)]

(* lines 712-729 *)
RECURSIVE ReloadLoop(_, _)
ReloadLoop(defs, st) ==
    IF defs = <<>> THEN st
    ELSE ReloadLoop(Tail(defs), ReloadOne(st, Head(defs)))

(* handle_issues, lines 703-732, called at pc = from with iss *)
handle_issues(iss, from, to) ==
    /\ pc = from
    /\ \E consequence \in report_library_map_issues(iss) :
          LET before == [registry |-> registry,
                         failed |-> reload.loading_issues.failed_libraries,
                         reads |-> reload.reads]
              st == IF consequence \in {"NONE", "LOAD_LOADABLES"}
                    THEN ReloadLoop(result, before)
                    ELSE before
          IN  /\ registry' = st.registry
              /\ reload' =
                     [loading_issues |->
                          [reload.loading_issues EXCEPT
                               !.failed_libraries = st.failed],
                      consequences |-> Append(reload.consequences, consequence),
                      reads |-> st.reads,
                      deferred |->
                          CASE consequence = "EDIT_MAP" ->
                                   Append(reload.deferred,
                                          "on_manage_cell_library_map")
                            [] consequence = "CLOSE_LAYOUT" ->
                                   Append(reload.deferred, "close_current_view")
                            [] OTHER -> reload.deferred]
    /\ pc' = to
    /\ UNCHANGED <<old_lib_defs, new_lib_defs, handled_new_lib_defs, added_libs,
                   removed_libs, renamed_libs, repathed_libs, has_0_30_5_api>>
    /\ UNCHANGED <<resVars, cmpVars, path_call, first_call, message, json_call,
                   validate_call, dialog, copy_call>>

(* line 734 *)
HandleIssues == handle_issues(issues, "returned", "handled_issues")

(* line 735 *)
HandleLoadingIssues ==
    handle_issues(reload.loading_issues, "handled_issues", "reloaded")

NextReload == NextResolve \/ HandleIssues \/ HandleLoadingIssues

SpecReload == InitResolve /\ [][NextReload]_vars

(* C25: when the issues of the resolution were reported and the user        *)
(* answered Cancel (LOAD_NOTHING), Edit Map (EDIT_MAP) or Close Layout      *)
(* (CLOSE_LAYOUT), this invocation of reload_cell_libraries reads no        *)
(* library and leaves the registry as it was.                               *)
C25_NoLibraryTouchedAfterDecline ==
    (/\ reload.consequences # <<>>
     /\ reload.consequences[1] \in {"LOAD_NOTHING", "EDIT_MAP", "CLOSE_LAYOUT"})
    => (reload.reads = <<>> /\ registry = NoRegistry)

(* C26: in one invocation of reload_cell_libraries no resolved definition   *)
(* is read more often than it occurs in the resolved list.                  *)
TimesRead(d) == Cardinality({i \in DOMAIN reload.reads : reload.reads[i] = d})
TimesResolved(d) == Cardinality({i \in DOMAIN result : result[i] = d})

C26_EachDefinitionReadOnce ==
    \A i \in DOMAIN reload.reads :
        TimesRead(reload.reads[i]) <= TimesResolved(reload.reads[i])

-----------------------------------------------------------------------------
(* LibraryManagerDialog: update_ui_from_config, the rows of the two trees,  *)
(* validate_ui_inputs, config_from_ui, on_ok, on_apply, on_cancel           *)

MaxDialogStatements == 2

DialogStatements ==
    {LibraryMapComment("c"),
     LibraryDefinitionStatement("A", W \o <<"a.gds">>),
     LibraryDefinitionStatement("B", INC \o <<"a.gds">>),
     LibraryMapInclude(W \o <<"x.klib">>),
     LibraryMapInclude(INC \o <<"x.klib">>)}

Technologies == {"", "sky130A"}

(* The files the rows can name: a layout that is there or not, a folder in  *)
(* the place of one, a map that is no JSON, maps with and without issues    *)
DialogFileSystems ==
    {f \in FileSystems :
        /\ f[INC \o <<"a.gds">>] # Unreadable
        /\ f[W \o <<"x.klib">>] # Missing
        /\ f[INC \o <<"x.klib">>] # Blob}

(* LayoutFileSet: layout_path and its lib_path (plugin lines 61-72) *)
LayoutFileSets ==
    {[layout_path |-> W \o <<"a.gds">>, lib_path |-> W \o <<"a.klib">>],
     [layout_path |-> INC \o <<"a.gds">>, lib_path |-> INC \o <<"a.klib">>]}

(* Folders the process may not write into *)
ReadOnlyFolders == {INC}

(* write_json, lines 130-132: open(path, 'w') raises in such a folder *)
CanWriteJson(path) == parent(path) \notin ReadOnlyFolders

(* library_definitions, lines 141-143, and library_map_includes, 137-139 *)
library_definitions(cfg) ==
    SelectSeq(cfg.statements, LAMBDA st : st.kind = "library")
library_map_includes(cfg) ==
    SelectSeq(cfg.statements, LAMBDA st : st.kind = "include")

(* add_library_tree_row and add_includes_tree_row: a row with status '' *)
LibraryRow(lib_name, lib_path) ==
    [lib_name |-> lib_name, lib_path |-> lib_path, status |-> ""]
IncludeRow(include_path) == [include_path |-> include_path, status |-> ""]

(* effective_library_definitions, lines 170-196, as validate_ui_inputs uses *)
(* it: acc says whether issues holds an entry so far; the value is "ok"     *)
(* when the call returns with no issue, "issues" when it returns with some, *)
(* "raised" when read_json or the recursion limit ends it.                  *)
RECURSIVE ResolveOutcome(_, _, _, _)
ResolveOutcome(stmts, base, depth, acc) ==
    IF stmts = <<>> THEN acc
    ELSE CASE Head(stmts).kind = "comment" ->
                  ResolveOutcome(Tail(stmts), base, depth, acc)
           [] Head(stmts).kind = "library" ->
                  ResolveOutcome(Tail(stmts), base, depth,
                      IF validate_path(resolve_path(Head(stmts).lib_path, base),
                                       DefaultReadBytes) # NoIssue
                      THEN "issues" ELSE acc)
           [] OTHER ->
                  IF ~is_file(Head(stmts).include_path)
                  THEN ResolveOutcome(Tail(stmts), base, depth, acc)
                  ELSE IF validate_path(
                              resolve_path(Head(stmts).include_path, base),
                              DefaultReadBytes) # NoIssue
                  THEN ResolveOutcome(Tail(stmts), base, depth, "issues")
                  ELSE IF \/ ~CanReadJson(
                                resolve_path(Head(stmts).include_path, base))
                          \/ depth >= RecursionLimit
                  THEN "raised"
                  ELSE \* lines 194-195: the included map, then the rest
                       LET path == resolve_path(Head(stmts).include_path, base)
                           inner == ResolveOutcome(read_json(path), parent(path),
                                                   depth + 1, acc)
                       IN  IF inner = "raised" THEN "raised"
                           ELSE ResolveOutcome(Tail(stmts), base, depth, inner)

(* update_path_status, lines 270-289 *)
update_path_status(path, layout_path, already_seen_paths) ==
    LET p == expand_path(path)
    IN  IF ~exists(p) THEN "Not found!"
        ELSE IF ~is_file(p) THEN "Not a file!"
        ELSE IF layout_path = p THEN "Recursion!"
        ELSE IF p \in already_seen_paths THEN "Duplicate!"
        ELSE "OK"

(* already_seen_paths when row i of a tree is reached (line 286 adds every  *)
(* path, whatever its status)                                               *)
SeenBeforeLibrary(d, i) ==
    {expand_path(d.library_rows[j].lib_path) : j \in 1..(i - 1)}
SeenBeforeInclude(d, i) ==
    {expand_path(d.library_rows[j].lib_path) : j \in DOMAIN d.library_rows}
    \cup {expand_path(d.include_rows[j].include_path) : j \in 1..(i - 1)}

(* lines 291-299: the status of library row i *)
LibraryRowStatus(d, i) ==
    update_path_status(d.library_rows[i].lib_path, d.layout_path,
                       SeenBeforeLibrary(d, i))

(* lines 301-323: the path status of include row i, and what the read and   *)
(* the resolution of the included map make of it                            *)
IncludeRowPathStatus(d, i) ==
    update_path_status(d.include_rows[i].include_path, d.layout_path,
                       SeenBeforeInclude(d, i))

IncludeRowOutcome(d, i) ==
    LET path == expand_path(d.include_rows[i].include_path)
    IN  IF IncludeRowPathStatus(d, i) # "OK" THEN "invalid"
        ELSE IF ~CanReadJson(path) THEN "unreadable"
        ELSE ResolveOutcome(read_json(path), parent(path), 1, "ok")

IncludeRowStatus(d, i) ==
    CASE IncludeRowOutcome(d, i) = "invalid" -> IncludeRowPathStatus(d, i)
      [] IncludeRowOutcome(d, i) = "unreadable" -> "Unreadable"
      [] IncludeRowOutcome(d, i) = "issues" -> "Missing files!"
      [] OTHER -> "OK"

(* validate_ui_inputs, lines 262-330: the rows with their new statuses,     *)
(* whether the call raised, and the value it returned. Only a failed path   *)
(* status sets valid = False (lines 298-299 and 307-308); the two           *)
(* 'continue' branches of lines 312-323 leave it as it is. When the         *)
(* resolution of an included map raises, the rows after it keep their       *)
(* status.                                                                  *)
validate_ui_inputs(d) ==
    LET RaisesAt(i) == IncludeRowOutcome(d, i) = "raised"
        raised == \E i \in DOMAIN d.include_rows : RaisesAt(i)
    IN  [library_rows |->
             [i \in DOMAIN d.library_rows |->
                 [d.library_rows[i] EXCEPT !.status = LibraryRowStatus(d, i)]],
         include_rows |->
             [i \in DOMAIN d.include_rows |->
                 IF \E j \in 1..(i - 1) : RaisesAt(j)
                 THEN d.include_rows[i]
                 ELSE [d.include_rows[i] EXCEPT
                           !.status = IncludeRowStatus(d, i)]],
         raised |-> raised,
         valid |->
             /\ ~raised
             /\ \A i \in DOMAIN d.library_rows : LibraryRowStatus(d, i) = "OK"
             /\ \A i \in DOMAIN d.include_rows :
                    IncludeRowPathStatus(d, i) = "OK"]

(* config_from_ui, lines 332-349 *)
config_from_ui(d) ==
    [technology |-> "",
     statements |->
         [i \in DOMAIN d.library_rows |->
             LibraryDefinitionStatement(d.library_rows[i].lib_name,
                                        d.library_rows[i].lib_path)]
         \o [i \in DOMAIN d.include_rows |->
                LibraryMapInclude(d.include_rows[i].include_path)]]

DialogFrame ==
    UNCHANGED <<diffVars, resVars, cmpVars, path_call, first_call, message,
                json_call, validate_call, reload, copy_call>>

(* on_manage_cell_library_map, lines 583-586: the dialog is created for the *)
(* layout's file set and the configuration loaded from lib_path             *)
InitDialog ==
    /\ pc = "dialog_created"
    /\ fs \in DialogFileSystems
    /\ cwd = W
    /\ config = <<>>
    /\ base_folder = W
    /\ stack = <<>>
    /\ issues = NoIssues
    /\ result = <<>>
    /\ exception = ""
    /\ DiffIdle
    /\ CompareIdle
    /\ path_call = NoPathCall
    /\ first_call = NoFirstCall
    /\ message = NoMessage
    /\ json_call = NoJsonCall
    /\ validate_call = NoValidateCall
    /\ reload = NoReload
    /\ copy_call = NoCopyCall
    /\ \E lfs \in LayoutFileSets, tech \in Technologies,
          stmts \in SeqsUpTo(DialogStatements, MaxDialogStatements) :
          dialog = [NoDialog EXCEPT
                        !.layout_path = lfs.layout_path,
                        !.lib_path = lfs.lib_path,
                        !.config = [technology |-> tech, statements |-> stmts],
                        !.file = [technology |-> tech, statements |-> stmts],
                        !.shown = [technology |-> tech, statements |-> stmts]]

(* update_ui_from_config, lines 233-255; when validate_ui_inputs raises,    *)
(* on_manage_cell_library_map catches it and the dialog is never shown      *)
UpdateUiFromConfig ==
    /\ pc = "dialog_created"
    /\ LET libs == library_definitions(dialog.config)
           incs == library_map_includes(dialog.config)
           d == [dialog EXCEPT
                     !.library_rows =
                         [i \in DOMAIN libs |->
                             LibraryRow(libs[i].lib_name, libs[i].lib_path)],
                     !.include_rows =
                         [i \in DOMAIN incs |->
                             IncludeRow(incs[i].include_path)]]
       IN  \E v \in {validate_ui_inputs(d)} :
               /\ dialog' = [d EXCEPT !.library_rows = v.library_rows,
                                      !.include_rows = v.include_rows,
                                      !.valid = v.valid]
               /\ pc' = IF v.raised THEN "dialog_failed" ELSE "dialog_open"
    /\ DialogFrame

RemoveAt(rows, i) == SubSeq(rows, 1, i - 1) \o SubSeq(rows, i + 1, Len(rows))

(* on_remove_library, lines 368-371, with row i selected *)
OnRemoveLibrary ==
    /\ pc = "dialog_open"
    /\ \E i \in DOMAIN dialog.library_rows :
          dialog' = [dialog EXCEPT !.library_rows = RemoveAt(@, i),
                                   !.edited = TRUE]
    /\ UNCHANGED pc
    /\ DialogFrame

(* on_remove_include, lines 378-381, with row i selected *)
OnRemoveInclude ==
    /\ pc = "dialog_open"
    /\ \E i \in DOMAIN dialog.include_rows :
          dialog' = [dialog EXCEPT !.include_rows = RemoveAt(@, i),
                                   !.edited = TRUE]
    /\ UNCHANGED pc
    /\ DialogFrame

(* The try block of on_ok and on_apply, lines 409-417 and 425-433, v being *)
(* what validate_ui_inputs made of the rows: the dialog after it, outcome   *)
(* saying how it ended                                                      *)
ValidateAndWrite(d, v) ==
    LET shown == [d EXCEPT !.library_rows = v.library_rows,
                           !.include_rows = v.include_rows,
                           !.valid = v.valid]
    IN  IF v.raised THEN [shown EXCEPT !.outcome = "raised"]
        ELSE IF ~v.valid THEN [shown EXCEPT !.outcome = "invalid"]
        ELSE IF ~CanWriteJson(d.lib_path)
             THEN [shown EXCEPT !.outcome = "raised",
                                !.config = config_from_ui(d)]
             ELSE [shown EXCEPT !.outcome = "written",
                                !.config = config_from_ui(d),
                                !.written = TRUE,
                                !.file = config_from_ui(d)]

(* on_ok, lines 405-419: 'return' leaves the dialog open; after the try    *)
(* block, whether or not it raised, accept() closes it with result 1        *)
OnOk ==
    /\ pc = "dialog_open"
    /\ \E v \in {validate_ui_inputs(dialog)} :
       \E d \in {ValidateAndWrite(dialog, v)} :
           IF d.outcome = "invalid"
           THEN dialog' = d /\ pc' = "dialog_open"
           ELSE dialog' = [d EXCEPT !.result = 1] /\ pc' = "dialog_accepted"
    /\ DialogFrame

(* on_apply, lines 421-433 *)
OnApply ==
    /\ pc = "dialog_open"
    /\ \E v \in {validate_ui_inputs(dialog)} :
           dialog' = ValidateAndWrite(dialog, v)
    /\ UNCHANGED pc
    /\ DialogFrame

(* on_cancel, lines 435-438: reject() closes the dialog with result 0 *)
OnCancel ==
    /\ pc = "dialog_open"
    /\ dialog' = [dialog EXCEPT !.result = 0]
    /\ pc' = "dialog_rejected"
    /\ DialogFrame

NextDialog ==
    \/ UpdateUiFromConfig
    \/ OnRemoveLibrary
    \/ OnRemoveInclude
    \/ OnOk
    \/ OnApply
    \/ OnCancel

SpecDialog == InitDialog /\ [][NextDialog]_vars

(* C27: the dialog is accepted only after on_ok wrote the configuration     *)
(* built from the UI to lib_path.                                           *)
C27_AcceptedOnlyAfterWrite ==
    pc = "dialog_accepted" => dialog.outcome = "written"

(* C28: validate_ui_inputs returns True only if every library and include   *)
(* row ends with the status OK, so nothing is written with another status.  *)
AllRowsOk ==
    /\ \A i \in DOMAIN dialog.library_rows :
           dialog.library_rows[i].status = "OK"
    /\ \A i \in DOMAIN dialog.include_rows :
           dialog.include_rows[i].status = "OK"

C28_ValidOnlyIfAllRowsOk ==
    /\ dialog.valid => AllRowsOk
    /\ dialog.outcome = "written" => AllRowsOk

(* C29: after update_ui_from_config(c) and OK or Apply with no edit, the    *)
(* configuration written to lib_path has the technology and the statements  *)
(* of c, in the same order.                                                 *)
C29_SaveWithoutEditKeepsConfig ==
    (~dialog.edited /\ dialog.written) => dialog.file = dialog.shown

-----------------------------------------------------------------------------
(* LibraryMapConfig.load_as_copy (lines 90-117)                             *)

MaxCopyStatements == 2

CopyStatements ==
    TopStatements
    \cup {LibraryDefinitionStatement("A", <<"..", "lib", "a.gds">>)}

(* os.path.relpath of an absolute path from a folder: the common leading    *)
(* components are dropped, one ".." for each component left of the folder   *)
RECURSIVE RelativeTo(_, _)
RelativeTo(target, folder) ==
    IF target # <<>> /\ folder # <<>> /\ Head(target) = Head(folder)
    THEN RelativeTo(Tail(target), Tail(folder))
    ELSE [i \in 1..Len(folder) |-> ".."] \o target

(* klayout_plugin_utils.path_helpers.rebase_relative_path: an absolute path *)
(* is kept, a relative one names the same file from the new base folder     *)
rebase_relative_path(path, old_base, new_base) ==
    IF is_absolute(path) THEN path
    ELSE RelativeTo(PathResolve(<<>>, old_base \o path), new_base)

(* lines 101-114: one statement of the loop *)
RebasedStatement(st, old_base, new_base) ==
    CASE st.kind = "comment" -> st
      [] st.kind = "library" ->
             LibraryDefinitionStatement(
                 st.lib_name,
                 rebase_relative_path(st.lib_path, old_base, new_base))
      [] OTHER ->
             LibraryMapInclude(
                 rebase_relative_path(st.include_path, old_base, new_base))

(* load_as_copy whose loop has no branch for comments *)
load_as_copy_drops_comments(cfg, original_path, new_path) ==
    IF parent(original_path) # parent(new_path)
    THEN LET kept == SelectSeq(cfg.statements,
                               LAMBDA st : st.kind # "comment")
         IN  [cfg EXCEPT !.statements =
                 [i \in DOMAIN kept |->
                     RebasedStatement(kept[i], parent(original_path),
                                      parent(new_path))]]
    ELSE cfg

(* load_as_copy, lines 94-115: what becomes of the configuration read *)
load_as_copy(cfg, original_path, new_path) ==
    IF parent(original_path) # parent(new_path)
    THEN [cfg EXCEPT !.statements =
             [i \in DOMAIN cfg.statements |->
                 RebasedStatement(cfg.statements[i], parent(original_path),
                                  parent(new_path))]]
    ELSE cfg

CopyFrame ==
    UNCHANGED <<diffVars, resVars, cmpVars, path_call, first_call, message,
                json_call, validate_call, reload, dialog>>

InitCopy ==
    /\ pc = "copy"
    /\ copy_call \in
           {[NoCopyCall EXCEPT
                 !.original_path = op, !.new_path = np, !.readable = r,
                 !.file = json_string([technology |-> tech,
                                       statements |-> stmts])] :
                op \in {W \o <<"t.klib">>, INC \o <<"t.klib">>},
                np \in {W \o <<"a.klib">>, INC \o <<"a.klib">>,
                        W \o <<"sub", "a.klib">>},
                r \in BOOLEAN,
                tech \in Technologies,
                stmts \in SeqsUpTo(CopyStatements, MaxCopyStatements)}
    /\ path_call = NoPathCall
    /\ first_call = NoFirstCall
    /\ message = NoMessage
    /\ json_call = NoJsonCall
    /\ validate_call = NoValidateCall
    /\ reload = NoReload
    /\ dialog = NoDialog
    /\ DiffIdle
    /\ ResolutionIdle
    /\ CompareIdle

(* lines 92-117: read_json, the loop, write_json, return *)
LoadAsCopyReturns ==
    /\ pc = "copy"
    /\ copy_call.readable
    /\ CanWriteJson(copy_call.new_path)
    /\ \E cfg \in {load_as_copy(from_json_string(copy_call.file),
                                copy_call.original_path, copy_call.new_path)} :
          copy_call' = [copy_call EXCEPT !.returned = cfg,
                                         !.written = json_string(cfg)]
    /\ pc' = "copied"
    /\ CopyFrame

(* line 92 or line 116: open() raises, nothing is returned *)
LoadAsCopyRaises ==
    /\ pc = "copy"
    /\ ~copy_call.readable \/ ~CanWriteJson(copy_call.new_path)
    /\ copy_call' = [copy_call EXCEPT
                         !.raised = IF ~copy_call.readable
                                    THEN "FileNotFoundError"
                                    ELSE "PermissionError"]
    /\ pc' = "copy_raised"
    /\ CopyFrame

NextCopy ==
    \/ LoadAsCopyReturns
    \/ LoadAsCopyRaises

SpecCopy == InitCopy /\ [][NextCopy]_vars

(* C30: load_as_copy returns and writes a configuration with the technology *)
(* of the one read, as many statements, in the same order and of the same   *)
(* kinds, with the same comment texts and library names; with both paths in *)
(* one folder the paths are the same too.                                   *)
C30_CopyKeepsAllButPaths ==
    pc = "copied" =>
        LET read == from_json_string(copy_call.file)
            ret == copy_call.returned
            wr == copy_call.written
        IN  /\ ret.technology = read.technology
            /\ wr.technology = copy_call.file.technology
            /\ Len(ret.statements) = Len(read.statements)
            /\ Len(wr.statements) = Len(copy_call.file.statements)
            /\ \A i \in DOMAIN read.statements :
                  /\ ret.statements[i].kind = read.statements[i].kind
                  /\ DOMAIN wr.statements[i]
                         = DOMAIN copy_call.file.statements[i]
                  /\ read.statements[i].kind = "comment" =>
                         /\ ret.statements[i] = read.statements[i]
                         /\ wr.statements[i] = copy_call.file.statements[i]
                  /\ read.statements[i].kind = "library" =>
                         /\ ret.statements[i].lib_name
                                = read.statements[i].lib_name
                         /\ wr.statements[i].lib_name
                                = copy_call.file.statements[i].lib_name
            /\ parent(copy_call.original_path) = parent(copy_call.new_path) =>
                  /\ ret = read
                  /\ from_json_string(wr) = read

C30_Witness ==
    /\ pc = "copied"
    /\ parent(copy_call.original_path) # parent(copy_call.new_path)
    /\ copy_call.returned.technology = "sky130A"
    /\ Len(copy_call.returned.statements) = 2
    /\ copy_call.returned.statements[1].kind = "comment"
    /\ copy_call.returned.statements[2].kind = "library"
    /\ copy_call.returned.statements[2].lib_path
           # from_json_string(copy_call.file).statements[2].lib_path

====
